---- MODULE Spec2Model ----
(***************************************************************************)
(* A model of the context-aware timebox planner (src/planner.py): the      *)
(* commit-date sources and their fallback, the window count, the streak,   *)
(* the session classifier, the paginated remote fetch, and the JSON        *)
(* session / mood stores with their read-modify-write appends.             *)
(*                                                                         *)
(* Calendar days are natural numbers: day d is "today minus d days", so    *)
(* str(today - timedelta(days=i)) is the number i.  A list of date-strings *)
(* is a bag of days (the code only counts, tests membership and takes the  *)
(* length of such lists, never their order).                               *)
(***************************************************************************)
EXTENDS Integers, Sequences, FiniteSets, Bags, TLC

VARIABLES
    \* ---- the planner's metrics (get_commit_count_last_days, calculate_streak,
    \*      get_work_intensity, suggest_timebox, show_achievements)
    local,          \* the list returned by get_local_commit_dates
    token,          \* GITHUB_TOKEN is set
    fetched,        \* all_dates gathered by get_all_commit_dates before set()
    source,         \* which source supplied `dates`: "none", "local", "remote"
    dates,          \* the local `dates` of get_commit_count_last_days
    commit_count,   \* the count returned / passed to suggest_timebox
    recent_dates,   \* the day list returned (a sequence, most recent first)
    streak,         \* the local `streak` of calculate_streak, and its result
    streak_i,       \* the loop index `i` of calculate_streak
    achievement,    \* the branch taken by show_achievements
    intensity,      \* the value of get_work_intensity
    suggestion,     \* the (label, kind) pair of suggest_timebox
    commit_dates,   \* the argument of calculate_streak
    pc,             \* position of the (single) planner process
    \* ---- one invocation of main() after the other, and the files of .timebox
    hour,           \* now.hour as read by is_in_quiet_hours
    printed,        \* the last notice printed by the process
    sessions,       \* focus_log.json
    moods,          \* mood_log.json
    notes,          \* task_notes.txt, line by line
    data,           \* the local `data` of log_session / log_mood
    clock,          \* datetime.now(), a logical clock
    runs,           \* invocations of main() so far
    before,         \* history: the stores as main() found them
    \* ---- two processes appending to the stores at the same time
    wpc,            \* position of each writer
    wkind,          \* the store each writer appends to
    wentry,         \* the entry each writer appends
    wdata,          \* each writer's local `data`
    overlap,        \* history: a writer loaded while another was mid-append
    \* ---- GitAnalyzer.get_all_commit_dates against the remote API
    srv,            \* what the API serves: repositories and their commits
    fpc,            \* position of the fetch
    repos,          \* `repos` of get_all_repos / get_all_commit_dates
    page,           \* `page` of the running pagination loop
    repo_idx,       \* index into `repos` of the loop of get_all_commit_dates
    repo_dates,     \* `dates` of get_commit_dates_for_repo
    all_dates,      \* `all_dates` of get_all_commit_dates
    unique_dates,   \* the list get_all_commit_dates returns
    reqs            \* history: every request sent, with its outcome

metricVars == <<local, token, fetched, source, dates, commit_count, recent_dates,
                streak, streak_i, achievement, intensity, suggestion, commit_dates>>

storeVars == <<hour, printed, sessions, moods, notes, data, clock, runs, before>>

writerVars == <<wpc, wkind, wentry, wdata, overlap>>

fetchVars == <<srv, fpc, repos, page, repo_idx, repo_dates, all_dates, unique_dates,
               reqs>>

vars == <<metricVars, pc, storeVars, writerVars, fetchVars>>

----------------------------------------------------------------------------
(* Bounds of the model *)

\* Days 0..MaxDay are the calendar days a commit history may touch.
MaxDay == 9
\* Every active day of a generated history carries 1..MaxMult commits.
MaxMult == 3
\* Inputs of suggest_timebox.
MaxCount == 25
MaxIntensity == 80
\* Inputs of calculate_streak: a run of up to MaxRunLen consecutive days,
\* starting today or yesterday, joined with any subset of 0..MaxSparseDay.
MaxRunLen == 101
MaxSparseDay == 3
\* Invocations of main().
MaxRuns == 2
\* Records already in a store when two writers meet.
MaxBase == 1
\* The remote API: repositories, commits per repository, items per page.
MaxRepos == 2
MaxCommits == 2
PageSize == 1

(* Program constants *)

\* QUIET_HOURS = (22, 7)
QuietStart == 22
QuietEnd == 7
\* len(dates) < 3 in get_commit_count_last_days
FallbackThreshold == 3
\* days=7, the default window
DefaultDays == 7
\* range(100) in calculate_streak
StreakLookback == 100
\* ''.split('\n') == ['']: the one line of an empty `git log` output, which is
\* no date at all
NoDate == -1

----------------------------------------------------------------------------
(* Helpers on lists of date-strings *)

Days == 0..MaxDay

\* A history with m commits on each day of S.
History(S, m) == [d \in S |-> m]

Histories == {History(S, m) : S \in SUBSET Days, m \in 1..MaxMult}

\* Histories whose active days are consecutive.
IntervalHistories ==
    {History(a..b, m) : a \in Days, b \in -1..MaxDay, m \in 1..MaxMult}

\* list.count(x)
ListCount(l, x) == CopiesIn(x, l)

\* len(list)
ListLen(l) == BagCardinality(l)

RECURSIVE SeqToSet(_)
SeqToSet(s) == IF s = <<>> THEN {} ELSE {Head(s)} \cup SeqToSet(Tail(s))

----------------------------------------------------------------------------
(* GitAnalyzer *)

\* list(set(all_dates)): one entry per distinct date-string.
UniqueDates(gathered) == SetToBag(BagToSet(gathered))

\* get_local_commit_dates: `git log` either fails (return []) or prints one
\* line per commit; an empty output still splits into one empty line.
GetLocalCommitDates(git) ==
    IF ~git.ok THEN EmptyBag
    ELSE IF git.commits = EmptyBag THEN SetToBag({NoDate})
    ELSE git.commits

GitOutcomes ==
    {[ok |-> FALSE, commits |-> EmptyBag]}
        \cup {[ok |-> TRUE, commits |-> h] : h \in Histories}

----------------------------------------------------------------------------
(* TimeboxPlanner: metrics *)

\* The loop `for i in range(days)` of get_commit_count_last_days.
RECURSIVE WindowLoop(_, _, _, _, _)
WindowLoop(ds, days, i, count, recent) ==
    IF i >= days THEN [count |-> count, recent |-> recent]
    ELSE LET day_commits == ListCount(ds, i)
         IN  IF day_commits > 0
             THEN WindowLoop(ds, days, i + 1, count + day_commits, Append(recent, i))
             ELSE WindowLoop(ds, days, i + 1, count, recent)

\* The source test of get_commit_count_last_days.
UseRemoteFallback(ds, tok) ==
    (ds = EmptyBag \/ ListLen(ds) < FallbackThreshold) /\ tok

GetCommitCountEveryDay(loc, tok, gathered, days) ==
    LET remote == UseRemoteFallback(loc, tok)
        ds     == IF remote THEN UniqueDates(gathered) ELSE loc
        w      == IF ds = EmptyBag
                  THEN [count |-> 0, recent |-> <<>>]
                  ELSE WindowLoop(ds, MaxDay + 1, 0, 0, <<>>)
    IN  [source |-> IF remote THEN "remote" ELSE "local",
         dates  |-> ds,
         count  |-> w.count,
         recent |-> w.recent]

\* get_commit_count_last_days(days), given what the two sources deliver.
GetCommitCountLastDays(loc, tok, gathered, days) ==
    LET remote == UseRemoteFallback(loc, tok)
        ds     == IF remote THEN UniqueDates(gathered) ELSE loc
        w      == IF ds = EmptyBag
                  THEN [count |-> 0, recent |-> <<>>]
                  ELSE WindowLoop(ds, days, 0, 0, <<>>)
    IN  [source |-> IF remote THEN "remote" ELSE "local",
         dates  |-> ds,
         count  |-> w.count,
         recent |-> w.recent]

SuggestTimeboxInclusive(count, intens) ==
    IF count >= 20 /\ intens >= 50
    THEN [label |-> "High activity: 45 min sprint + 5 min break", kind |-> "sprint"]
    ELSE IF count >= 10
    THEN [label |-> "Moderate activity: 60 min deep work + 10 min break", kind |-> "deep"]
    ELSE IF count > 0
    THEN [label |-> "Low activity: 90 min deep work + 15 min break", kind |-> "deep"]
    ELSE [label |-> "No recent commits: Start with a 25 min Pomodoro + 5 min break",
          kind |-> "pomodoro"]

\* suggest_timebox
SuggestTimebox(count, intens) ==
    IF count >= 20 /\ intens > 50
    THEN [label |-> "High activity: 45 min sprint + 5 min break", kind |-> "sprint"]
    ELSE IF count >= 10
    THEN [label |-> "Moderate activity: 60 min deep work + 10 min break", kind |-> "deep"]
    ELSE IF count > 0
    THEN [label |-> "Low activity: 90 min deep work + 15 min break", kind |-> "deep"]
    ELSE [label |-> "No recent commits: Start with a 25 min Pomodoro + 5 min break",
          kind |-> "pomodoro"]

\* show_achievements: the branch printed.
ShowAchievements(s) ==
    IF s >= 10 THEN "epic" ELSE IF s >= 5 THEN "great" ELSE "keep"

NoSuggestion == [label |-> "", kind |-> ""]

----------------------------------------------------------------------------
(* SessionLogger: the JSON files *)

\* A file is missing, holds a JSON list (its entries), or was opened for
\* writing and not written yet (empty, which json.load rejects).
MissingFile == [state |-> "missing", entries |-> <<>>]
TruncatedFile == [state |-> "truncated", entries |-> <<>>]
JsonFile(entries) == [state |-> "json", entries |-> entries]

\* SessionLogger.__init__: a file that does not exist is created as [].
CreateIfMissing(f) == IF f.state = "missing" THEN JsonFile(<<>>) ELSE f

LoadJsonForgets(f) == <<>>

\* _load_json: the parsed list, or [] on any exception.
LoadJson(f) == IF f.state = "json" THEN f.entries ELSE <<>>

\* open(path, "w") of _save_json: the file is emptied.
OpenForWrite(f) == TruncatedFile

DumpJsonLastEntry(d) == JsonFile(IF d = <<>> THEN <<>> ELSE <<d[Len(d)]>>)

\* json.dump(data, f) and the close of _save_json.
DumpJson(d) == JsonFile(d)

\* The entry of log_session.
SessionEntry(now, sugg, intens) ==
    [timestamp |-> now, suggestion |-> sugg.label, intensity |-> intens,
     session_type |-> sugg.kind]

\* The entry of log_mood.
MoodEntry(now, mood_score) == [timestamp |-> now, mood |-> mood_score]

IsInQuietHoursExclusive(h) ==
    IF QuietStart < QuietEnd
    THEN QuietStart <= h /\ h < QuietEnd
    ELSE h > QuietStart \/ h < QuietEnd

\* is_in_quiet_hours, for now.hour = h
IsInQuietHours(h) ==
    IF QuietStart < QuietEnd
    THEN QuietStart <= h /\ h < QuietEnd
    ELSE h >= QuietStart \/ h < QuietEnd

----------------------------------------------------------------------------
(* Initial values *)

MetricInit ==
    /\ local = EmptyBag
    /\ token = FALSE
    /\ fetched = EmptyBag
    /\ source = "none"
    /\ dates = EmptyBag
    /\ commit_count = 0
    /\ recent_dates = <<>>
    /\ streak = 0
    /\ streak_i = 0
    /\ achievement = "none"
    /\ intensity = 0
    /\ suggestion = NoSuggestion
    /\ commit_dates = {}

StoreInit ==
    /\ hour = 0
    /\ printed = ""
    /\ sessions = MissingFile
    /\ moods = MissingFile
    /\ notes = <<>>
    /\ data = <<>>
    /\ clock = 1
    /\ runs = 0
    /\ before = [sessions |-> <<>>, moods |-> <<>>, notes |-> <<>>]

WriterInit ==
    /\ wpc = <<>>
    /\ wkind = <<>>
    /\ wentry = <<>>
    /\ wdata = <<>>
    /\ overlap = FALSE

FetchInit ==
    /\ srv = <<>>
    /\ fpc = "off"
    /\ repos = <<>>
    /\ page = 0
    /\ repo_idx = 0
    /\ repo_dates = EmptyBag
    /\ all_dates = EmptyBag
    /\ unique_dates = EmptyBag
    /\ reqs = <<>>

----------------------------------------------------------------------------
(* suggest_timebox applied to every input *)

SuggestCall ==
    /\ pc = "ready"
    /\ \E c \in 0..MaxCount, i \in 0..MaxIntensity :
          /\ commit_count' = c
          /\ intensity' = i
          /\ suggestion' = SuggestTimebox(c, i)
    /\ pc' = "suggested"
    /\ UNCHANGED <<storeVars, writerVars, fetchVars>>
    /\ UNCHANGED <<local, token, fetched, source, dates, recent_dates, streak,
                   streak_i, achievement, commit_dates>>

PureInit ==
    /\ MetricInit
    /\ pc = "ready"
    /\ StoreInit
    /\ WriterInit
    /\ FetchInit

SpecClassify == PureInit /\ [][SuggestCall]_vars

----------------------------------------------------------------------------
(* calculate_streak, one loop iteration per step *)

\* One pass of `for i in range(100)`: the loop is left when range(100) is
\* used up, by `break` (i == 0) or by `return streak` (i > 0); all three
\* leave the function with the current `streak`.
StreakStepCountsFromYesterday(cd, i, s) ==
    IF i >= StreakLookback THEN [i |-> i, streak |-> s, done |-> TRUE]
    ELSE IF i \in cd THEN [i |-> i + 1, streak |-> s + 1, done |-> FALSE]
    ELSE IF i = 0 THEN [i |-> i + 1, streak |-> s, done |-> FALSE]
    ELSE [i |-> i, streak |-> s, done |-> TRUE]

StreakStep(cd, i, s) ==
    IF i >= StreakLookback THEN [i |-> i, streak |-> s, done |-> TRUE]
    ELSE IF i \in cd THEN [i |-> i + 1, streak |-> s + 1, done |-> FALSE]
    ELSE IF i = 0 THEN [i |-> i, streak |-> s, done |-> TRUE]
    ELSE [i |-> i, streak |-> s, done |-> TRUE]

StreakIter ==
    /\ pc = "streak_loop"
    /\ LET n == StreakStep(commit_dates, streak_i, streak)
       IN  /\ streak' = n.streak
           /\ streak_i' = n.i
           /\ pc' = IF n.done THEN "streak_done" ELSE pc
    /\ UNCHANGED <<storeVars, writerVars, fetchVars>>
    /\ UNCHANGED <<local, token, fetched, source, dates, commit_count, recent_dates,
                   achievement, intensity, suggestion, commit_dates>>

StreakInputs ==
    {(a..(a + n - 1)) \cup T :
        a \in 0..1, n \in 0..MaxRunLen, T \in SUBSET (0..MaxSparseDay)}

\* calculate_streak(commit_dates) is entered with a set of days.
StreakCall ==
    /\ pc = "ready"
    /\ \E cd \in StreakInputs : commit_dates' = cd
    /\ streak' = 0
    /\ streak_i' = 0
    /\ pc' = "streak_loop"
    /\ UNCHANGED <<storeVars, writerVars, fetchVars>>
    /\ UNCHANGED <<local, token, fetched, source, dates, commit_count, recent_dates,
                   achievement, intensity, suggestion>>

SpecStreak == PureInit /\ [][StreakCall \/ StreakIter]_vars

----------------------------------------------------------------------------
(* The metrics of run(): get_commit_count_last_days(), then calculate_streak *)
(* on the day list it returned, then show_achievements                       *)

\* What get_all_commit_dates has gathered in all_dates when it is called.
FetchedChoices == IntervalHistories \cup {EmptyBag}

GetCommitCountCall ==
    /\ pc = "ready"
    /\ \E git \in GitOutcomes, tok \in BOOLEAN :
          LET loc == GetLocalCommitDates(git)
          IN  \E all \in (IF UseRemoteFallback(loc, tok)
                          THEN FetchedChoices ELSE {EmptyBag}) :
                LET r == GetCommitCountLastDays(loc, tok, all, DefaultDays)
                IN  /\ local' = loc
                    /\ token' = tok
                    /\ fetched' = all
                    /\ source' = r.source
                    /\ dates' = r.dates
                    /\ commit_count' = r.count
                    /\ recent_dates' = r.recent
    /\ pc' = "counted"
    /\ UNCHANGED <<storeVars, writerVars, fetchVars>>
    /\ UNCHANGED <<streak, streak_i, achievement, intensity, suggestion, commit_dates>>

\* streak = self.calculate_streak(recent_dates)
RunStreakCall ==
    /\ pc = "counted"
    /\ commit_dates' = SeqToSet(recent_dates)
    /\ streak' = 0
    /\ streak_i' = 0
    /\ pc' = "streak_loop"
    /\ UNCHANGED <<storeVars, writerVars, fetchVars>>
    /\ UNCHANGED <<local, token, fetched, source, dates, commit_count, recent_dates,
                   achievement, intensity, suggestion>>

\* self.show_achievements(streak)
ShowAchievementsCall ==
    /\ pc = "streak_done"
    /\ achievement' = ShowAchievements(streak)
    /\ pc' = "shown"
    /\ UNCHANGED <<storeVars, writerVars, fetchVars>>
    /\ UNCHANGED <<local, token, fetched, source, dates, commit_count, recent_dates,
                   streak, streak_i, intensity, suggestion, commit_dates>>

ActivityNext ==
    \/ GetCommitCountCall
    \/ RunStreakCall
    \/ StreakIter
    \/ ShowAchievementsCall

SpecActivity == PureInit /\ [][ActivityNext]_vars

----------------------------------------------------------------------------
(* main() and run(), invoked up to MaxRuns times one after the other *)

Hours == 0..23

\* What the user types at the mood prompt, when it parses as an integer.
MoodInputs == {0, 1, 5, 6}

\* What the user types at the note prompt, stripped.
NoteInputs == {"", "note"}

\* Values of get_work_intensity.
RunIntensities == {0, 51}

\* Commit histories seen by run(): m commits on each of the last k days.
PrefixHistories ==
    {History(0..(k - 1), m) : k \in 0..(MaxDay + 1), m \in 1..MaxMult}

RunGitOutcomes ==
    {[ok |-> FALSE, commits |-> EmptyBag]}
        \cup {[ok |-> TRUE, commits |-> h] : h \in PrefixHistories}

\* The locals of run() and its callees, as they are when no run is under way.
ProcessReset ==
    /\ hour' = 0
    /\ data' = <<>>
    /\ intensity' = 0
    /\ suggestion' = NoSuggestion

\* main(): outside a repository it exits with code 1; otherwise it creates
\* the planner (SessionLogger.__init__ creates the missing stores) and enters
\* run(), whose first act reads the clock.
Main ==
    /\ pc = "idle"
    /\ runs < MaxRuns
    /\ \E in_repo \in BOOLEAN :
          IF in_repo
          THEN /\ sessions' = CreateIfMissing(sessions)
               /\ moods' = CreateIfMissing(moods)
               /\ before' = [sessions |-> sessions'.entries,
                             moods |-> moods'.entries,
                             notes |-> notes]
               /\ \E h \in Hours : hour' = h
               /\ printed' = ""
               /\ pc' = "quiet_check"
               /\ UNCHANGED runs
          ELSE /\ printed' = "not a git repository"
               /\ runs' = runs + 1
               /\ UNCHANGED <<sessions, moods, before, hour, pc>>
    /\ UNCHANGED <<notes, data, clock>>
    /\ UNCHANGED <<metricVars, writerVars, fetchVars>>

\* run(): `if is_in_quiet_hours(): print(...); return`
RunGate ==
    /\ pc = "quiet_check"
    /\ IF IsInQuietHours(hour)
       THEN /\ printed' = "quiet hours"
            /\ pc' = "exit"
       ELSE /\ printed' = printed
            /\ pc' = "metrics"
    /\ hour' = 0
    /\ UNCHANGED <<sessions, moods, notes, data, clock, runs, before>>
    /\ UNCHANGED <<metricVars, writerVars, fetchVars>>

\* run(): the metrics, the suggestion and the report printed from them.
RunMetrics ==
    /\ pc = "metrics"
    /\ \E git \in RunGitOutcomes, tok \in BOOLEAN, i \in RunIntensities :
          LET loc == GetLocalCommitDates(git)
          IN  \E all \in (IF UseRemoteFallback(loc, tok)
                          THEN PrefixHistories \cup {EmptyBag} ELSE {EmptyBag}) :
                LET r == GetCommitCountLastDays(loc, tok, all, DefaultDays)
                IN  /\ intensity' = i
                    /\ suggestion' = SuggestTimebox(r.count, i)
    /\ printed' = "report"
    /\ pc' = "log_session"
    /\ UNCHANGED <<local, token, fetched, source, dates, commit_count, recent_dates,
                   streak, streak_i, achievement, commit_dates>>
    /\ UNCHANGED <<hour, sessions, moods, notes, data, clock, runs, before>>
    /\ UNCHANGED <<writerVars, fetchVars>>

\* log_session: build the entry, load the list, append.
LogSessionLoad ==
    /\ pc = "log_session"
    /\ data' = Append(LoadJson(sessions), SessionEntry(clock, suggestion, intensity))
    /\ clock' = clock + 1
    /\ pc' = "session_open"
    /\ UNCHANGED <<hour, printed, sessions, moods, notes, runs, before>>
    /\ UNCHANGED <<metricVars, writerVars, fetchVars>>

\* _save_json(log_file): open(path, "w")
LogSessionOpen ==
    /\ pc = "session_open"
    /\ sessions' = OpenForWrite(sessions)
    /\ pc' = "session_dump"
    /\ UNCHANGED <<hour, printed, moods, notes, data, clock, runs, before>>
    /\ UNCHANGED <<metricVars, writerVars, fetchVars>>

\* _save_json(log_file): json.dump; then run() prints the break tip and asks.
LogSessionDump ==
    /\ pc = "session_dump"
    /\ sessions' = DumpJson(data)
    /\ printed' = "break tip"
    /\ pc' = "ask"
    /\ UNCHANGED <<hour, moods, notes, data, clock, runs, before>>
    /\ UNCHANGED <<metricVars, writerVars, fetchVars>>

\* run(): "Start timer now? (y/n)"
AskStart ==
    /\ pc = "ask"
    /\ \E start \in BOOLEAN :
          IF start
          THEN /\ pc' = "note"
               /\ printed' = printed
          ELSE /\ pc' = "exit"
               /\ printed' = "session not started"
    /\ UNCHANGED <<hour, sessions, moods, notes, data, clock, runs, before>>
    /\ UNCHANGED <<metricVars, writerVars, fetchVars>>

\* run(): the note prompt and save_note.
NotePrompt ==
    /\ pc = "note"
    /\ \E note \in NoteInputs :
          IF note # ""
          THEN /\ notes' = Append(notes, [timestamp |-> clock, note |-> note])
               /\ clock' = clock + 1
               /\ printed' = "note saved"
          ELSE UNCHANGED <<notes, clock, printed>>
    /\ pc' = "mood"
    /\ UNCHANGED <<hour, sessions, moods, data, runs, before>>
    /\ UNCHANGED <<metricVars, writerVars, fetchVars>>

\* prompt_mood: a rating that parses and lies in 1..5 enters log_mood, which
\* builds the entry, loads the list and appends; any other input is refused.
PromptMood ==
    /\ pc = "mood"
    /\ \E parses \in BOOLEAN, mood \in MoodInputs :
          IF parses /\ 1 <= mood /\ mood <= 5
          THEN /\ data' = Append(LoadJson(moods), MoodEntry(clock, mood))
               /\ clock' = clock + 1
               /\ pc' = "mood_open"
               /\ printed' = printed
          ELSE /\ printed' = "mood not logged"
               /\ pc' = "timer"
               /\ UNCHANGED <<data, clock>>
    /\ UNCHANGED <<hour, sessions, moods, notes, runs, before>>
    /\ UNCHANGED <<metricVars, writerVars, fetchVars>>

\* _save_json(mood_file): open(path, "w")
LogMoodOpen ==
    /\ pc = "mood_open"
    /\ moods' = OpenForWrite(moods)
    /\ pc' = "mood_dump"
    /\ UNCHANGED <<hour, printed, sessions, notes, data, clock, runs, before>>
    /\ UNCHANGED <<metricVars, writerVars, fetchVars>>

\* _save_json(mood_file): json.dump; prompt_mood prints "Mood logged."
LogMoodDump ==
    /\ pc = "mood_dump"
    /\ moods' = DumpJson(data)
    /\ printed' = "mood logged"
    /\ pc' = "timer"
    /\ UNCHANGED <<hour, sessions, notes, data, clock, runs, before>>
    /\ UNCHANGED <<metricVars, writerVars, fetchVars>>

\* start_timer: the countdown runs out.
TimerDone ==
    /\ pc = "timer"
    /\ printed' = "time is up"
    /\ pc' = "exit"
    /\ UNCHANGED <<hour, sessions, moods, notes, data, clock, runs, before>>
    /\ UNCHANGED <<metricVars, writerVars, fetchVars>>

\* run() and main() return: the process is gone, the files stay.
Exit ==
    /\ pc = "exit"
    /\ pc' = "idle"
    /\ runs' = runs + 1
    /\ printed' = ""
    /\ ProcessReset
    /\ UNCHANGED <<sessions, moods, notes, clock, before>>
    /\ UNCHANGED <<local, token, fetched, source, dates, commit_count, recent_dates,
                   streak, streak_i, achievement, commit_dates>>
    /\ UNCHANGED <<writerVars, fetchVars>>

Next ==
    \/ Main
    \/ RunGate
    \/ RunMetrics
    \/ LogSessionLoad
    \/ LogSessionOpen
    \/ LogSessionDump
    \/ AskStart
    \/ NotePrompt
    \/ PromptMood
    \/ LogMoodOpen
    \/ LogMoodDump
    \/ TimerDone
    \/ Exit

Init ==
    /\ MetricInit
    /\ pc = "idle"
    /\ StoreInit
    /\ WriterInit
    /\ FetchInit

Spec == Init /\ [][Next]_vars

\* An interrupt (Ctrl+C) delivered to the process: start_timer catches it
\* and returns; anywhere else nothing catches it and the process dies where
\* it stands.
Interrupt ==
    /\ pc \notin {"idle", "exit"}
    /\ printed' = IF pc = "timer" THEN "timer cancelled" ELSE "KeyboardInterrupt"
    /\ pc' = "exit"
    /\ UNCHANGED <<hour, sessions, moods, notes, data, clock, runs, before>>
    /\ UNCHANGED <<metricVars, writerVars, fetchVars>>

----------------------------------------------------------------------------
(* Stores that already hold records *)

\* The k-th of n records left in focus_log.json by earlier runs.
OldSession(k, n) ==
    SessionEntry(k - n, SuggestTimebox(0, 0), 0)

\* The k-th of n records left in mood_log.json by earlier runs.
OldMood(k, n) == MoodEntry(k - n, 3)

OldSessions(n) == [k \in 1..n |-> OldSession(k, n)]

OldMoods(n) == [k \in 1..n |-> OldMood(k, n)]

\* A repository in which the planner has logged one session and one mood.
UsedInit ==
    /\ MetricInit
    /\ pc = "idle"
    /\ hour = 0
    /\ printed = ""
    /\ sessions = JsonFile(OldSessions(1))
    /\ moods = JsonFile(OldMoods(1))
    /\ notes = <<>>
    /\ data = <<>>
    /\ clock = 1
    /\ runs = 0
    /\ before = [sessions |-> OldSessions(1), moods |-> OldMoods(1), notes |-> <<>>]
    /\ WriterInit
    /\ FetchInit

SpecInterrupt == UsedInit /\ [][Next \/ Interrupt]_vars

----------------------------------------------------------------------------
(* Two processes, each inside one log_session or log_mood call *)

Writers == {1, 2}

StoreKinds == {"session", "mood"}

FileOf(kind) == IF kind = "session" THEN sessions ELSE moods

\* The entry writer p appends to a store.
WriterEntry(p, kind, now) ==
    IF kind = "session"
    THEN SessionEntry(now, SuggestTimebox(p, 0), p)
    ELSE MoodEntry(now, p)

\* log_session / log_mood in process p: the entry, _load_json, append.
WLoad(p) ==
    /\ wpc[p] = "idle"
    /\ \E kind \in StoreKinds :
          LET e == WriterEntry(p, kind, clock)
          IN  /\ wkind' = [wkind EXCEPT ![p] = kind]
              /\ wentry' = [wentry EXCEPT ![p] = e]
              /\ wdata' = [wdata EXCEPT ![p] = Append(LoadJson(FileOf(kind)), e)]
              /\ overlap' = (overlap \/ \E q \in Writers \ {p} :
                                 wpc[q] \in {"loaded", "opened"} /\ wkind[q] = kind)
    /\ clock' = clock + 1
    /\ wpc' = [wpc EXCEPT ![p] = "loaded"]
    /\ UNCHANGED <<hour, printed, sessions, moods, notes, data, runs, before>>
    /\ UNCHANGED <<metricVars, pc, fetchVars>>

\* _save_json in process p: open(path, "w")
WOpen(p) ==
    /\ wpc[p] = "loaded"
    /\ IF wkind[p] = "session"
       THEN sessions' = OpenForWrite(sessions) /\ moods' = moods
       ELSE moods' = OpenForWrite(moods) /\ sessions' = sessions
    /\ wpc' = [wpc EXCEPT ![p] = "opened"]
    /\ UNCHANGED <<wkind, wentry, wdata, overlap>>
    /\ UNCHANGED <<hour, printed, notes, data, clock, runs, before>>
    /\ UNCHANGED <<metricVars, pc, fetchVars>>

\* _save_json in process p: json.dump and close
WDump(p) ==
    /\ wpc[p] = "opened"
    /\ IF wkind[p] = "session"
       THEN sessions' = DumpJson(wdata[p]) /\ moods' = moods
       ELSE moods' = DumpJson(wdata[p]) /\ sessions' = sessions
    /\ wpc' = [wpc EXCEPT ![p] = "done"]
    /\ UNCHANGED <<wkind, wentry, wdata, overlap>>
    /\ UNCHANGED <<hour, printed, notes, data, clock, runs, before>>
    /\ UNCHANGED <<metricVars, pc, fetchVars>>

ConcurrentNext == \E p \in Writers : WLoad(p) \/ WOpen(p) \/ WDump(p)

ConcurrentInit ==
    /\ MetricInit
    /\ pc = "writers"
    /\ hour = 0
    /\ printed = ""
    /\ \E n \in 0..MaxBase, m \in 0..MaxBase :
          /\ sessions = JsonFile(OldSessions(n))
          /\ moods = JsonFile(OldMoods(m))
          /\ before = [sessions |-> OldSessions(n), moods |-> OldMoods(m),
                       notes |-> <<>>]
    /\ notes = <<>>
    /\ data = <<>>
    /\ clock = 1
    /\ runs = 0
    /\ wpc = [p \in Writers |-> "idle"]
    /\ wkind = [p \in Writers |-> "none"]
    /\ wentry = [p \in Writers |-> MoodEntry(0, 0)]
    /\ wdata = [p \in Writers |-> <<>>]
    /\ overlap = FALSE
    /\ FetchInit

SpecConcurrent == ConcurrentInit /\ [][ConcurrentNext]_vars

----------------------------------------------------------------------------
(* GitAnalyzer.get_all_commit_dates against a paginated API *)

\* HTTP statuses the API answers with.
Statuses == {200, 403}

\* Repositories are named 1..nrepos; repository r holds ncommits[r] commits.
\* With `undated`, the first commit of every repository carries no author
\* date.
Servers ==
    UNION {{[nrepos |-> n, ncommits |-> c, undated |-> u] :
               c \in [1..n -> 0..MaxCommits], u \in BOOLEAN} : n \in 0..MaxRepos}

\* The items lo..hi of a listing of n items, as page `pg` of it.
PageBounds(pg, n) ==
    [lo |-> (pg - 1) * PageSize + 1,
     hi |-> IF pg * PageSize < n THEN pg * PageSize ELSE n]

\* GET /users/{owner}/repos?page=pg
ListPage(server, pg) ==
    LET b == PageBounds(pg, server.nrepos)
    IN  [k \in 1..(b.hi - b.lo + 1) |-> [name |-> b.lo + k - 1]]

\* The k-th commit of repository r.
CommitOf(server, r, k) ==
    [dated |-> ~(server.undated /\ k = 1), day |-> r + k - 2]

\* GET /repos/{owner}/{repo}/commits?page=pg
CommitsPage(server, r, pg) ==
    LET b == PageBounds(pg, server.ncommits[r])
    IN  [k \in 1..(b.hi - b.lo + 1) |-> CommitOf(server, r, b.lo + k - 1)]

\* github_api_get: None unless the status is 200.
GithubApiGet(status, json) ==
    IF status # 200
    THEN [none |-> TRUE, json |-> <<>>]
    ELSE [none |-> FALSE, json |-> json]

\* `for commit in data`: the day of every commit that carries one.
RECURSIVE PageDates(_)
PageDates(commits) ==
    IF commits = <<>> THEN EmptyBag
    ELSE IF Head(commits).dated
    THEN SetToBag({Head(commits).day}) (+) PageDates(Tail(commits))
    ELSE PageDates(Tail(commits))

\* One pass of the loop of get_all_repos.
ReposStep(resp, rs, pg) ==
    IF resp.none \/ Len(resp.json) = 0
    THEN [done |-> TRUE, repos |-> rs, page |-> pg]
    ELSE [done |-> FALSE, repos |-> rs \o resp.json, page |-> pg + 1]

CommitsStepGivesUp(resp, ds, pg) ==
    IF resp.none
    THEN [done |-> TRUE, dates |-> EmptyBag, page |-> pg]
    ELSE IF Len(resp.json) = 0
    THEN [done |-> TRUE, dates |-> ds, page |-> pg]
    ELSE [done |-> FALSE, dates |-> ds (+) PageDates(resp.json), page |-> pg + 1]

\* One pass of the loop of get_commit_dates_for_repo.
CommitsStep(resp, ds, pg) ==
    IF resp.none \/ Len(resp.json) = 0
    THEN [done |-> TRUE, dates |-> ds, page |-> pg]
    ELSE [done |-> FALSE, dates |-> ds (+) PageDates(resp.json), page |-> pg + 1]

\* get_all_repos: request the next page of the listing.  When the loop ends,
\* get_all_commit_dates returns [] for an empty listing and otherwise turns
\* to the first repository.
FetchReposPage ==
    /\ fpc = "repos"
    /\ \E status \in Statuses :
          LET resp == GithubApiGet(status, ListPage(srv, page))
              step == ReposStep(resp, repos, page)
          IN  /\ reqs' = Append(reqs, [target |-> 0, page |-> page, status |-> status])
              /\ repos' = step.repos
              /\ IF ~step.done
                 THEN /\ page' = step.page
                      /\ UNCHANGED <<fpc, repo_idx, unique_dates>>
                 ELSE IF Len(repos) = 0
                 THEN /\ unique_dates' = EmptyBag
                      /\ fpc' = "done"
                      /\ UNCHANGED <<page, repo_idx>>
                 ELSE /\ repo_idx' = 1
                      /\ page' = 1
                      /\ fpc' = "commits"
                      /\ UNCHANGED unique_dates
    /\ UNCHANGED <<srv, repo_dates, all_dates>>
    /\ UNCHANGED <<metricVars, pc, storeVars, writerVars>>

\* get_commit_dates_for_repo(repos[repo_idx]): request the next page of its
\* commits.  When the loop ends its dates are added to all_dates, and
\* get_all_commit_dates goes on to the next repository or, after the last,
\* returns list(set(all_dates)).
FetchCommitsPage ==
    /\ fpc = "commits"
    /\ \E status \in Statuses :
          LET name == repos[repo_idx].name
              resp == GithubApiGet(status, CommitsPage(srv, name, page))
              step == CommitsStep(resp, repo_dates, page)
          IN  /\ reqs' = Append(reqs, [target |-> name, page |-> page, status |-> status])
              /\ IF ~step.done
                 THEN /\ repo_dates' = step.dates
                      /\ page' = step.page
                      /\ UNCHANGED <<fpc, repo_idx, all_dates, unique_dates>>
                 ELSE /\ all_dates' = all_dates (+) step.dates
                      /\ repo_dates' = EmptyBag
                      /\ IF repo_idx < Len(repos)
                         THEN /\ repo_idx' = repo_idx + 1
                              /\ page' = 1
                              /\ UNCHANGED <<fpc, unique_dates>>
                         ELSE /\ unique_dates' = UniqueDates(all_dates')
                              /\ fpc' = "done"
                              /\ UNCHANGED <<page, repo_idx>>
    /\ UNCHANGED <<srv, repos>>
    /\ UNCHANGED <<metricVars, pc, storeVars, writerVars>>

FetchNext == FetchReposPage \/ FetchCommitsPage

\* get_all_commit_dates is entered: repos = [], page = 1.
FetchStart ==
    /\ MetricInit
    /\ pc = "fetch"
    /\ StoreInit
    /\ WriterInit
    /\ srv \in Servers
    /\ fpc = "repos"
    /\ repos = <<>>
    /\ page = 1
    /\ repo_idx = 0
    /\ repo_dates = EmptyBag
    /\ all_dates = EmptyBag
    /\ unique_dates = EmptyBag
    /\ reqs = <<>>

\* The calls are synchronous: the process goes on as long as it has a step.
SpecFetch == FetchStart /\ [][FetchNext]_vars /\ WF_vars(FetchNext)

----------------------------------------------------------------------------
(* Properties of the metrics *)

\* The distinct calendar days of a list of date-strings.
DistinctDays(l) == BagToSet(l) \ {NoDate}

\* The days of the window of `days` days ending today.
Window(days) == 0..(days - 1)

\* The commits of l inside the window, with multiplicity.
CommitsInWindow(l, days) ==
    BagCardinality([d \in (DOMAIN l) \cap Window(days) |-> l[d]])

\* What the chosen source delivered, commit by commit.
ChosenRaw == IF source = "remote" THEN fetched ELSE local

\* C1: the remote result is used, alone, exactly when the local result holds
\* fewer than 3 distinct calendar days and a token is configured; otherwise
\* the local result is used.
C1_RemoteIffFewDistinctDays ==
    pc # "ready" =>
        /\ (source = "remote") <=>
               (Cardinality(DistinctDays(local)) < 3 /\ token)
        /\ source = "remote" => BagToSet(dates) = BagToSet(fetched)
        /\ source = "local" => dates = local

\* C2: whichever source is chosen, commit_count is the number of that source's
\* commits inside the window, with multiplicity, and the returned days are
\* exactly the window's days with at least one commit.
C2_WindowCountWithMultiplicity ==
    pc # "ready" =>
        /\ commit_count = CommitsInWindow(ChosenRaw, DefaultDays)
        /\ SeqToSet(recent_dates) = DistinctDays(ChosenRaw) \cap Window(DefaultDays)

\* C10: the streak run() prints and hands to show_achievements is at most 7,
\* and the `streak >= 10` branch of show_achievements is never taken.
C10_RunStreakAtMostWindow ==
    /\ pc \in {"streak_loop", "streak_done", "shown"} => streak <= DefaultDays
    /\ pc = "shown" => achievement \in {"keep", "great"}

\* A history of ten consecutive days ending today, reported as a streak of 7.
C10_Witness ==
    /\ pc = "shown"
    /\ source = "local"
    /\ (0..9) \subseteq DistinctDays(local)
    /\ streak = 7
    /\ achievement = "great"

----------------------------------------------------------------------------
(* Properties of the classifier and of the streak *)

HighLabel == "High activity: 45 min sprint + 5 min break"
ModerateLabel == "Moderate activity: 60 min deep work + 10 min break"
LowLabel == "Low activity: 90 min deep work + 15 min break"
NoCommitsLabel == "No recent commits: Start with a 25 min Pomodoro + 5 min break"

\* C3: suggest_timebox returns exactly one of the four (label, kind) pairs,
\* the one the rule table gives: sprint for count >= 20 with intensity > 50,
\* else Moderate/deep for count >= 10, else Low/deep for count > 0, and
\* pomodoro for count = 0.
C3_RuleTable ==
    pc = "suggested" =>
        /\ (commit_count >= 20 /\ intensity > 50)
              => suggestion = [label |-> HighLabel, kind |-> "sprint"]
        /\ (commit_count >= 10 /\ ~(commit_count >= 20 /\ intensity > 50))
              => suggestion = [label |-> ModerateLabel, kind |-> "deep"]
        /\ (commit_count > 0 /\ commit_count < 10)
              => suggestion = [label |-> LowLabel, kind |-> "deep"]
        /\ commit_count = 0
              => suggestion = [label |-> NoCommitsLabel, kind |-> "pomodoro"]

\* 25 commits at intensity exactly 50 are Moderate, not a sprint.
C3_Witness ==
    /\ pc = "suggested"
    /\ commit_count = 25
    /\ intensity = 50
    /\ suggestion = [label |-> ModerateLabel, kind |-> "deep"]

\* The longest run of consecutive days ending today inside cd, at most 100.
LongestRunEndingToday(cd) ==
    IF 0 \notin cd THEN 0
    ELSE CHOOSE k \in 1..StreakLookback :
            /\ (0..(k - 1)) \subseteq cd
            /\ (k = StreakLookback \/ k \notin cd)

\* C4: calculate_streak returns 0 when today is not in the set, and otherwise
\* the length of the run of consecutive days ending today, never more than 100.
C4_StreakIsRunEndingToday ==
    pc = "streak_done" =>
        /\ streak = LongestRunEndingToday(commit_dates)
        /\ streak <= StreakLookback
        /\ (0 \notin commit_dates => streak = 0)

\* 101 consecutive days ending today: the streak stops at the cap.
C4_Witness ==
    /\ pc = "streak_done"
    /\ (0..StreakLookback) \subseteq commit_dates
    /\ streak = StreakLookback

----------------------------------------------------------------------------
(* Properties of the stores under one process *)

IsPrefix(a, b) == Len(a) <= Len(b) /\ SubSeq(b, 1, Len(a)) = a

\* C5: under a single writer every log_session / log_mood call leaves the
\* targeted store equal to its previous contents followed by exactly one new
\* entry, and leaves the other store as it was.
C5_AppendOnly ==
    [][/\ pc = "session_dump" =>
             /\ Len(data) >= 1
             /\ sessions' = JsonFile(Append(before.sessions, data[Len(data)]))
             /\ moods' = moods
       /\ pc = "mood_dump" =>
             /\ Len(data) >= 1
             /\ moods' = JsonFile(Append(before.moods, data[Len(data)]))
             /\ sessions' = sessions]_vars

\* A mood entry appended to a store that already held one, after the session
\* store grew from one entry to two.
C5_Witness ==
    /\ pc = "timer"
    /\ printed = "mood logged"
    /\ Len(before.sessions) = 1
    /\ Len(before.moods) = 1
    /\ sessions = JsonFile(Append(before.sessions, data[Len(data)]))
          \/ Len(sessions.entries) = 2
    /\ Len(moods.entries) = 2
    /\ IsPrefix(before.moods, moods.entries)

\* C6: after an interrupt, and after any later append, each store still
\* holds every record it held when the interrupted run began, and no store
\* is ever left truncated or emptied.
C6_InterruptKeepsRecords ==
    pc \in {"idle", "exit"} =>
        /\ sessions.state # "truncated"
        /\ moods.state # "truncated"
        /\ IsPrefix(before.sessions, sessions.entries)
        /\ IsPrefix(before.moods, moods.entries)

RunLogged ==
    \/ pc \in {"ask", "note", "mood", "mood_open", "mood_dump", "timer"}
    \/ pc = "exit" /\ printed # "quiet hours"

\* In a state of a run: before the session is logged nothing has changed, and
\* from the question on exactly one session record has been appended.
RunStoresAsExpected ==
    /\ pc \in {"quiet_check", "metrics", "log_session", "session_open"}
          => /\ sessions.entries = before.sessions
             /\ moods.entries = before.moods
             /\ notes = before.notes
    /\ pc = "exit" /\ printed = "quiet hours"
          => /\ sessions = JsonFile(before.sessions)
             /\ moods = JsonFile(before.moods)
             /\ notes = before.notes
             /\ suggestion = NoSuggestion
    /\ RunLogged
          => /\ sessions.state = "json"
             /\ Len(sessions.entries) = Len(before.sessions) + 1
             /\ IsPrefix(before.sessions, sessions.entries)

\* C7: at an hour h with h >= 22 or h < 7 run() returns with no suggestion
\* and with the three stores untouched; at any other hour it goes on and has
\* appended exactly one session record when it asks whether to start the
\* timer, whatever the answer.
C7_QuietHoursGate ==
    [][/\ pc = "quiet_check" =>
             IF hour >= 22 \/ hour < 7
             THEN /\ pc' = "exit"
                  /\ printed' = "quiet hours"
                  /\ suggestion' = NoSuggestion
                  /\ <<sessions, moods, notes>>' = <<sessions, moods, notes>>
             ELSE pc' = "metrics"
       /\ RunStoresAsExpected']_vars

\* A run gated by the quiet hours on stores that already hold records.
C7_Witness ==
    /\ pc = "exit"
    /\ printed = "quiet hours"
    /\ Len(before.sessions) >= 1
    /\ sessions = JsonFile(before.sessions)

----------------------------------------------------------------------------
(* Properties of the stores under two processes *)

Holds(f, e) == \E k \in 1..Len(f.entries) : f.entries[k] = e

BaseOf(kind) == IF kind = "session" THEN before.sessions ELSE before.moods

AllDone == \A p \in Writers : wpc[p] = "done"

\* C9: two appends to the same store lose an update, leaving only one of the
\* two new records, exactly when the second writer loaded while the first
\* was still between its load and the end of its save; appends that run one
\* after the other leave the old records followed by both new ones.
C9_LostUpdateIffOverlap ==
    (AllDone /\ wkind[1] = wkind[2]) =>
        LET f == FileOf(wkind[1])
            base == BaseOf(wkind[1])
        IN  /\ f.state = "json"
            /\ overlap =>
                  /\ Holds(f, wentry[1]) # Holds(f, wentry[2])
                  /\ Len(f.entries) <= Len(base) + 1
            /\ ~overlap =>
                  /\ Holds(f, wentry[1]) /\ Holds(f, wentry[2])
                  /\ Len(f.entries) = Len(base) + 2
                  /\ IsPrefix(base, f.entries)

\* Both writers loaded the same old record, both saved: one new record is
\* gone.
C9_Witness ==
    /\ AllDone
    /\ wkind[1] = "session"
    /\ wkind[2] = "session"
    /\ Len(before.sessions) = 1
    /\ sessions = JsonFile(Append(before.sessions, wentry[2]))
    /\ ~Holds(sessions, wentry[1])

----------------------------------------------------------------------------
(* Properties of the remote fetch *)

\* The requests sent for target t (0: the listing; r: repository r).
ReqsOf(t) ==
    LET ForT(q) == q.target = t
    IN  SelectSeq(reqs, ForT)

\* What the API holds on page pg of target t.
ServedPage(t, pg) ==
    IF t = 0 THEN ListPage(srv, pg) ELSE CommitsPage(srv, t, pg)

\* Request k of a target stopped its pagination: non-200 or an empty page.
Stops(t, k) ==
    ReqsOf(t)[k].status # 200 \/ Len(ServedPage(t, k)) = 0

\* Pages are requested in the order 1, 2, 3, ... and none after a stop.
RequestsInOrder ==
    \A t \in 0..MaxRepos :
        \A k \in 1..Len(ReqsOf(t)) :
            /\ ReqsOf(t)[k].page = k
            /\ k < Len(ReqsOf(t)) => ~Stops(t, k)

\* The repositories listed on the pages before the listing stopped.
ListedBeforeStop ==
    {r \in 1..srv.nrepos :
        \E pg \in 1..(Len(ReqsOf(0)) - 1) :
            \E k \in 1..Len(ListPage(srv, pg)) : ListPage(srv, pg)[k].name = r}

\* The days of the dated commits on the pages of r before r stopped.
DaysBeforeStop(r) ==
    UNION {BagToSet(PageDates(CommitsPage(srv, r, pg))) :
              pg \in 1..(Len(ReqsOf(r)) - 1)}

\* When the fetch is over every listed repository was paginated up to its
\* own stop, and the result holds every date gathered before the stops.
AllRetained ==
    fpc = "done" =>
        /\ Len(ReqsOf(0)) >= 1 /\ Stops(0, Len(ReqsOf(0)))
        /\ {repos[k].name : k \in 1..Len(repos)} = ListedBeforeStop
        /\ \A r \in 1..MaxRepos :
              IF r \in ListedBeforeStop
              THEN Len(ReqsOf(r)) >= 1 /\ Stops(r, Len(ReqsOf(r)))
              ELSE Len(ReqsOf(r)) = 0
        /\ BagToSet(unique_dates) = UNION {DaysBeforeStop(r) : r \in ListedBeforeStop}

\* C8: per repository the pages are requested in order and the pagination
\* stops at the first empty page or non-200 answer; the dates of the pages
\* before a stop, of every repository, are in the result; a failure on one
\* repository does not keep the others from being fetched; and the fetch
\* ends.
C8_PaginationDegradesGracefully ==
    /\ [](RequestsInOrder /\ AllRetained)
    /\ <>(fpc = "done")

\* Repository 1 failed on its second page; its first page and repository 2
\* are in the result all the same.
C8_Witness ==
    /\ fpc = "done"
    /\ Len(ReqsOf(1)) = 2
    /\ ReqsOf(1)[2].status # 200
    /\ Len(ReqsOf(2)) >= 2
    /\ DaysBeforeStop(1) # {}
    /\ DaysBeforeStop(1) \cup DaysBeforeStop(2) = BagToSet(unique_dates)
    /\ DaysBeforeStop(2) \ DaysBeforeStop(1) # {}

====
